---- MODULE Spec2Model ----
(***************************************************************************)
(* RadiusTokenClass (privacyidea/lib/tokens/radiustoken.py).               *)
(*                                                                         *)
(* State: the options dict threaded through one authentication attempt     *)
(* (opts), the challenge table of the token (challenges, nextId), the      *)
(* token info (tokeninfo), the installation (system: the interpreter and   *)
(* the system configuration), the number of the attempt and of the calls   *)
(* made in it (attempts, ncalls), whether the server has answered          *)
(* AccessAccept in this attempt (accepted) and a record of the last call   *)
(* (last) that the properties read.  The RADIUS server is the environment: *)
(* each exchange draws its outcome from Replies.                           *)
(*                                                                         *)
(* Three specifications.  Spec: every public method of the attempt is one  *)
(* action.  SpecConfiguration: update writes the token info, check_radius  *)
(* picks the server configuration from it.  SpecInterleaved: two attempts  *)
(* run is_challenge_response and check_challenge_response statement by     *)
(* statement on one challenge table (procs).                               *)
(*                                                                         *)
(* Conventions: Python None (and an absent dict key, which options.get     *)
(* turns into None) is the string "None"; radius_result, an int or None,   *)
(* is <<>> for None and <<v>> for the int v.                               *)
(*                                                                         *)
(* Assumptions: the options dict always carries the request's own keys, so *)
(* `options or {}` keeps the caller's dict; the token is not locked        *)
(* (check_token_locked passes); in Spec the server configuration of lines  *)
(* 425-452 resolves; passwords are strings; in Spec a validity time runs   *)
(* out between two method calls, not during one; get_challenges yields the *)
(* records in table order; the challenge table hands back a record's data  *)
(* as it was saved; the State attribute of a reply is a byte string.       *)
(***************************************************************************)
EXTENDS Integers, Sequences, FiniteSets, TLC

VARIABLES opts, challenges, nextId, tokeninfo, system, attempts, ncalls,
          accepted, last, procs

vars == <<opts, challenges, nextId, tokeninfo, system, attempts, ncalls,
          accepted, last, procs>>

-----------------------------------------------------------------------------
(* Bounds of the model *)

\* number of challenge records ever created
MaxChallenges == 2
\* largest received_count a record reaches
MaxReceived == 1
\* number of requests (attempts), the first one included
MaxAttempts == 2
\* number of method calls the framework makes on the token in one attempt
MaxCalls == 2
\* depth at which the interpreter stops a runaway recursion
MaxRecursionDepth == 3

-----------------------------------------------------------------------------
(* Values *)

None == "None"
SUCCESS == "<SUCCESS>"
REJECTED == "<REJECTED>"
DefaultMessage == "Enter your RADIUS tokencode:"
SucceededMessage == "RADIUS authentication succeeded"
FailedMessage == "RADIUS authentication failed"

Accept == 0
Reject == -1
Challenge == 1

DefaultChallengeValidityTime == 120
OtpLen == 6

\* the serial of the token
Serial == "RAD0001"

\* the installations: the interpreter the code runs on (Python 2.7 or
\* Python 3) and what the system configuration holds for
\* DefaultChallengeValidityTime: nothing (<<>>), or the decimal string '60'
Systems ==
    {[python |-> 2, DefaultChallengeValidityTime |-> <<>>],
     [python |-> 3, DefaultChallengeValidityTime |-> <<6, 0>>]}

\* transaction ids of the requests and of the records
TxIds == {"t1", "t2"}

\* State and Reply-Message attributes a RADIUS server hands out
ServerStates == {"s1", "s2"}
ServerMessages == {"m1"}

\* passwords of the requests: right PIN + OTP, wrong PIN + OTP
Otp == <<5, 5, 5, 5, 5, 5>>
TokenPin == <<1>>
Passwords == {<<1>> \o Otp, <<2>> \o Otp}
\* the answer to a challenge, and the value check_otp is given
Responses == {Otp}

\* Python truthiness of a str-or-None value
Truthy(v) == v # None /\ v # ""

-----------------------------------------------------------------------------
(* The RADIUS exchange as the environment sees it *)

\* an exchange that fails: while building the request (nothing is sent),
\* while waiting for the reply, while decoding the reply
Failures == {"BuildError", "Timeout", "MalformedReply"}

\* the outcome of one exchange: a failure, or a decoded reply whose State
\* and Reply-Message attributes are optional
Replies ==
    [code : Failures \cup {"AccessAccept", "AccessReject", "OtherCode"},
     State : {None}, Message : {None}]
    \cup [code : {"AccessChallenge"}, State : ServerStates, Message : ServerMessages]
    \cup {[code |-> "AccessChallenge", State |-> None, Message |-> "m1"],
          [code |-> "AccessChallenge", State |-> "s1", Message |-> None],
          [code |-> "AccessChallenge", State |-> None, Message |-> None]}

NoRequest == [sent |-> FALSE, User_Password |-> <<>>, State |-> None]
NoReply == [code |-> None, State |-> None, Message |-> None]

-----------------------------------------------------------------------------
(* check_radius *)

\* the State attribute of a reply is a byte string (RADIUS type octets);
\* the other values the code handles are text
IsBytes(v) == v \in ServerStates

\* Python's str(), lines 487 and 490: a text is itself, and so is a byte
\* string on Python 2, where bytes is str; on Python 3 the str() of the
\* byte string b's1' is its repr, the text "b's1'"
str(v) == IF system.python = 3 /\ IsBytes(v) THEN "b'" \o v \o "'" ELSE v

\* lines 485-490: the Access-Request; State is the transactionid option,
\* overridden by a truthy saved radius_state
BuildRequest(o, otpval, radius_state) ==
    [sent |-> TRUE,
     User_Password |-> otpval,
     State |-> IF Truthy(radius_state) THEN str(radius_state)
               ELSE IF o.transactionid # None THEN str(o.transactionid)
               ELSE None]

\* lines 410-411: the locals an exception inside the try block leaves behind:
\* result -1, radius_state as passed in, no message
Interrupted(radius_state) ==
    [exc |-> TRUE, result |-> Reject, radius_state |-> radius_state,
     radius_message |-> None]

\* lines 454-520, the try block: the locals when it is left.  Building,
\* sending and decoding raise inside it.  The log line 500 reads opt["State"]
\* and opt["Reply-Message"] before lines 502-505 test for them, so a
\* challenge lacking either raises KeyError.
TryBlock(reply, radius_state) ==
    IF reply.code \in Failures THEN Interrupted(radius_state)
    ELSE IF reply.code = "AccessChallenge" THEN
        IF reply.State = None \/ reply.Message = None
        THEN Interrupted(radius_state)
        ELSE [exc |-> FALSE, result |-> Challenge, radius_state |-> reply.State,
              radius_message |-> reply.Message]
    ELSE IF reply.code = "AccessAccept" THEN
        [exc |-> FALSE, result |-> Accept, radius_state |-> SUCCESS,
         radius_message |-> SucceededMessage]
    ELSE
        [exc |-> FALSE, result |-> Reject, radius_state |-> REJECTED,
         radius_message |-> FailedMessage]

\* a handler that lets the exception through
ExceptClause_Propagates(t) == t

\* lines 522-524: `except Exception` logs and falls through
ExceptClause(t) == [t EXCEPT !.exc = FALSE]

\* a short circuit that leaves the sentinel in the context
ShortCircuit_KeepsState(o) == o

\* lines 416-423: a sentinel in the context ends the call before any
\* exchange; state and message are cleared, radius_result is not written
ShortCircuit(o) ==
    [o EXCEPT !.radius_state = None, !.radius_message = None]

\* a write-back that forgets the verdict
WriteBack_NoResult(o, t) ==
    [o EXCEPT !.radius_state = t.radius_state,
              !.radius_message = t.radius_message]

\* lines 526-528: the verdict, state and message go back into the context
WriteBack(o, t) ==
    [o EXCEPT !.radius_result = <<t.result>>,
              !.radius_state = t.radius_state,
              !.radius_message = t.radius_message]

\* One call of check_radius on context o (lines 410-529).  The value is the
\* call's record: the context before and after, the verdict returned or the
\* exception raised, the path taken, the request put on the wire (none when
\* building it failed), the reply consumed and the saved state passed in.
check_radius(o, otpval, radius_state, reply) ==
    IF o.radius_state = SUCCESS THEN
        [pre |-> o, post |-> ShortCircuit(o), result |-> Accept, raised |-> FALSE,
         path |-> "sentinel", req |-> NoRequest, reply |-> NoReply,
         saved |-> radius_state]
    ELSE IF o.radius_state = REJECTED THEN
        [pre |-> o, post |-> ShortCircuit(o), result |-> Reject, raised |-> FALSE,
         path |-> "sentinel", req |-> NoRequest, reply |-> NoReply,
         saved |-> radius_state]
    ELSE
        LET t == ExceptClause(TryBlock(reply, radius_state))
            req == IF reply.code = "BuildError" THEN NoRequest
                   ELSE BuildRequest(o, otpval, radius_state)
        IN [pre |-> o,
            post |-> IF t.exc THEN o ELSE WriteBack(o, t),
            result |-> t.result,
            raised |-> t.exc,
            path |-> IF reply.code \in Failures THEN "failure" ELSE "reply",
            req |-> req, reply |-> reply, saved |-> radius_state]

-----------------------------------------------------------------------------
(* The challenge table (privacyidea.models.Challenge, lib.challenge) *)

\* get_challenges(serial, transaction_id): the token's records of the
\* transaction, in table order
get_challenges(ch, tx) ==
    SelectSeq(ch, LAMBDA c : c.serial = Serial /\ c.transaction_id = tx)

\* Challenge.is_valid: the validity time has not run out
is_valid(c) == ~c.expired

\* Challenge.delete
delete(ch, id) == SelectSeq(ch, LAMBDA c : c.id # id)

\* Challenge.set_otp_status(): one more response received
set_otp_status(ch, id) ==
    [k \in DOMAIN ch |->
        IF ch[k].id = id THEN [ch[k] EXCEPT !.received_count = @ + 1] ELSE ch[k]]

\* TokenClass.challenge_janitor: drop the token's expired records
challenge_janitor(ch) == SelectSeq(ch, is_valid)

Ids(ch) == {ch[k].id : k \in DOMAIN ch}
Record(ch, id) == CHOOSE c \in {ch[k] : k \in DOMAIN ch} : c.id = id

\* lines 239-241, 288-290: the transaction id of the request
TransactionId(o) ==
    IF o.transaction_id # None THEN o.transaction_id ELSE o.state

-----------------------------------------------------------------------------
(* Local PIN *)

\* privacyidea.lib.utils.is_true
is_true(v) == v \in {"1", "True", "true", "TRUE"}

\* lines 317-326
check_pin_local(ti) == is_true(ti.radius_local_checkpin)

\* the token object, where the code passes `self` as an argument
Self == <<-1>>

RecursionError == [raised |-> TRUE, exc |-> "RecursionError",
                   res |-> 0, pin |-> <<>>, otpval |-> <<>>]

\* lines 329-340.  Line 338 calls self.split_pin_pass(self, passw): the
\* method itself, with the token as passw and the password as user.  With
\* local PIN checking on, every call makes the same call again, until the
\* interpreter stops the recursion.
RECURSIVE split_pin_pass(_, _, _)
split_pin_pass(ti, passw, depth) ==
    IF check_pin_local(ti) THEN
        IF depth >= MaxRecursionDepth THEN RecursionError
        ELSE split_pin_pass(ti, Self, depth + 1)
    ELSE [raised |-> FALSE, exc |-> None, res |-> 0, pin |-> <<>>, otpval |-> passw]

\* TokenClass.split_pin_pass, the base behaviour line 338 was written for:
\* the last otplen characters are the OTP, what precedes them is the PIN
base_split_pin_pass(passw) ==
    LET n == Len(passw)
    IN  IF n <= OtpLen THEN [res |-> TRUE, pin |-> <<>>, otpval |-> passw]
        ELSE [res |-> TRUE, pin |-> SubSeq(passw, 1, n - OtpLen),
              otpval |-> SubSeq(passw, n - OtpLen + 1, n)]

\* TokenClass.check_pin called as self.check_pin(self, pin) (lines 171, 369):
\* the token object is compared with the token's PIN
check_pin(pin) == pin = TokenPin

-----------------------------------------------------------------------------
(* The methods.  Each yields the outcome of one call: the context and the  *)
(* table afterwards, the value returned or the exception raised, and the   *)
(* records of the check_radius calls made, in order.                       *)

\* The values the methods return, in one shape: a bool, an int (a verdict),
\* the (bool, int, reply) of authenticate, the (bool, message, transaction
\* id, attributes) of create_challenge; NoValue when the call raised.
NoValue ==
    [kind |-> "none", b |-> FALSE, n |-> 0, message |-> None,
     transaction_id |-> None, state |-> None]
Boolean(b) == [NoValue EXCEPT !.kind = "bool", !.b = b]
Number(n) == [NoValue EXCEPT !.kind = "int", !.n = n]
Triple(b, n, message) ==
    [NoValue EXCEPT !.kind = "triple", !.b = b, !.n = n, !.message = message]
Quad(b, message, transaction_id, state) ==
    [NoValue EXCEPT !.kind = "quad", !.b = b, !.message = message,
                    !.transaction_id = transaction_id, !.state = state]

Outcome(o, ch, ret, exc, calls) ==
    [opts |-> o, ch |-> ch, ret |-> ret, raised |-> exc # None, exc |-> exc,
     calls |-> calls]

\* the record of a check_radius call made for challenge record c
ForChallenge(r, c) == r @@ [cid |-> c.id, count |-> c.received_count]
Direct(r) == r @@ [cid |-> 0, count |-> 0]

\* a request check that asks the server although the context holds a verdict
is_challenge_request_IgnoresCache(ti, o, ch, passw, reply) ==
    LET r == check_radius(o, passw, o.radius_state, reply)
    IN  Outcome(r.post, ch, Boolean(r.result = 1), None, <<Direct(r)>>)

\* lines 162-181
is_challenge_request(ti, o, ch, passw, reply) ==
    LET state == o.radius_state
        sp == IF check_pin_local(ti) THEN split_pin_pass(ti, passw, 0)
              ELSE [raised |-> FALSE, exc |-> None, res |-> 0, pin |-> <<>>,
                    otpval |-> passw]
    IN  IF sp.raised THEN Outcome(o, ch, NoValue, sp.exc, <<>>)
        ELSE IF check_pin_local(ti) /\ ~check_pin(Self) THEN
            Outcome(o, ch, Boolean(FALSE), None, <<>>)
        ELSE IF o.radius_result = <<>> THEN
            LET r == check_radius(o, passw, state, reply)
            IN  IF r.raised THEN Outcome(r.post, ch, NoValue, "Exception", <<Direct(r)>>)
                ELSE Outcome(r.post, ch, Boolean(r.result = 1), None, <<Direct(r)>>)
        ELSE Outcome(o, ch, Boolean(o.radius_result[1] = 1), None, <<>>)

\* a mapping that takes every verdict but Reject for a success
Reply_NotRejected(otp_counter) ==
    IF otp_counter # -1 THEN Triple(TRUE, otp_counter, "matching 1 tokens")
    ELSE Triple(FALSE, otp_counter, "remote side denied access")

\* lines 380-390
Reply(otp_counter) ==
    IF otp_counter = 0 THEN Triple(TRUE, otp_counter, "matching 1 tokens")
    ELSE IF otp_counter = 1
    THEN Triple(FALSE, otp_counter, "unexpected challenge required")
    ELSE Triple(FALSE, otp_counter, "remote side denied access")

\* lines 358-390
authenticate(ti, o, ch, passw, reply) ==
    LET sp == IF check_pin_local(ti) THEN split_pin_pass(ti, passw, 0)
              ELSE [raised |-> FALSE, exc |-> None, res |-> 0, pin |-> <<>>,
                    otpval |-> passw]
    IN  IF sp.raised THEN Outcome(o, ch, NoValue, sp.exc, <<>>)
        ELSE IF check_pin_local(ti) /\ ~check_pin(Self) THEN
            Outcome(o, ch, Triple(FALSE, -1, "Wrong PIN"), None, <<>>)
        ELSE IF o.radius_result = <<>> THEN
            LET r == check_radius(o, sp.otpval, o.radius_state, reply)
            IN  IF r.raised THEN Outcome(r.post, ch, NoValue, "Exception", <<Direct(r)>>)
                ELSE Outcome(r.post, ch, Reply(r.result), None, <<Direct(r)>>)
        ELSE Outcome(o, ch, Reply(o.radius_result[1]), None, <<>>)

\* lines 395-396
check_otp(o, ch, otpval, reply) ==
    LET r == check_radius(o, otpval, None, reply)
    IN  IF r.raised THEN Outcome(r.post, ch, NoValue, "Exception", <<Direct(r)>>)
        ELSE Outcome(r.post, ch, Boolean(r.result # -1), None, <<Direct(r)>>)

\* a loop that keeps the record the server challenged again
RECURSIVE response_loop_KeepsStale(_, _, _, _, _)
response_loop_KeepsStale(cands, i, st, otpval, replies) ==
    IF i > Len(cands) \/ st.raised THEN st
    ELSE IF ~is_valid(cands[i])
    THEN response_loop_KeepsStale(cands, i + 1, st, otpval, replies)
    ELSE
        LET c == cands[i]
            r == check_radius(st.opts, otpval, c.data, replies[Len(st.calls) + 1])
            calls == Append(st.calls, ForChallenge(r, c))
        IN  response_loop_KeepsStale(cands, i + 1,
                [st EXCEPT !.opts = r.post, !.flag = (st.flag \/ r.result # 1),
                           !.calls = calls],
                otpval, replies)

\* lines 248-261: the loop over the records of the transaction.  st is the
\* loop's state; the k-th exchange draws replies[k].
RECURSIVE response_loop(_, _, _, _, _)
response_loop(cands, i, st, otpval, replies) ==
    IF i > Len(cands) \/ st.raised THEN st
    ELSE IF ~is_valid(cands[i]) THEN response_loop(cands, i + 1, st, otpval, replies)
    ELSE
        LET c == cands[i]
            r == check_radius(st.opts, otpval, c.data, replies[Len(st.calls) + 1])
            calls == Append(st.calls, ForChallenge(r, c))
        IN  IF r.raised THEN
                [st EXCEPT !.opts = r.post, !.raised = TRUE, !.calls = calls]
            ELSE IF r.result # 1 THEN
                response_loop(cands, i + 1,
                    [st EXCEPT !.opts = r.post, !.flag = TRUE, !.calls = calls],
                    otpval, replies)
            ELSE
                response_loop(cands, i + 1,
                    [st EXCEPT !.opts = r.post,
                               !.ch = challenge_janitor(delete(st.ch, c.id)),
                               !.calls = calls],
                    otpval, replies)

\* a response check that takes a request without a challenge for a response
is_challenge_response_TrueWithoutRecord(o, ch, passw, replies) ==
    LET o1 == [o EXCEPT !.radius_result = <<>>]
        transaction_id == TransactionId(o1)
        st0 == [opts |-> o1, ch |-> ch, flag |-> FALSE, raised |-> FALSE,
                calls |-> <<>>]
        st == IF Truthy(transaction_id)
              THEN response_loop(get_challenges(ch, transaction_id), 1, st0,
                                 passw, replies)
              ELSE st0
    IN  Outcome(st.opts, st.ch, Boolean(st.flag \/ st.calls = <<>>), None,
                st.calls)

\* lines 230-263
is_challenge_response(o, ch, passw, replies) ==
    LET o1 == [o EXCEPT !.radius_result = <<>>]
        transaction_id == TransactionId(o1)
        st0 == [opts |-> o1, ch |-> ch, flag |-> FALSE, raised |-> FALSE,
                calls |-> <<>>]
        st == IF Truthy(transaction_id)
              THEN response_loop(get_challenges(ch, transaction_id), 1, st0,
                                 passw, replies)
              ELSE st0
    IN  IF st.raised THEN Outcome(st.opts, st.ch, NoValue, "Exception", st.calls)
        ELSE Outcome(st.opts, st.ch, Boolean(st.flag), None, st.calls)

\* a loop that leaves the accepted record in the table
RECURSIVE check_loop_KeepsAccepted(_, _, _, _, _)
check_loop_KeepsAccepted(cands, i, st, passw, replies) ==
    IF i > Len(cands) \/ st.raised \/ st.done THEN st
    ELSE IF ~is_valid(cands[i])
    THEN check_loop_KeepsAccepted(cands, i + 1, st, passw, replies)
    ELSE
        LET c == cands[i]
            r == check_radius(st.opts, passw, c.data, replies[Len(st.calls) + 1])
            calls == Append(st.calls, ForChallenge(r, c))
        IN  IF r.result = 0 THEN
                [st EXCEPT !.opts = r.post, !.otp_counter = 0, !.done = TRUE,
                           !.calls = calls]
            ELSE
                check_loop_KeepsAccepted(cands, i + 1,
                    [st EXCEPT !.opts = r.post, !.otp_counter = -1,
                               !.ch = set_otp_status(st.ch, c.id),
                               !.calls = calls],
                    passw, replies)

\* lines 297-311: the loop over the records of the transaction; `done` is
\* the break of line 307
RECURSIVE check_loop(_, _, _, _, _)
check_loop(cands, i, st, passw, replies) ==
    IF i > Len(cands) \/ st.raised \/ st.done THEN st
    ELSE IF ~is_valid(cands[i]) THEN check_loop(cands, i + 1, st, passw, replies)
    ELSE
        LET c == cands[i]
            r == check_radius(st.opts, passw, c.data, replies[Len(st.calls) + 1])
            calls == Append(st.calls, ForChallenge(r, c))
        IN  IF r.raised THEN
                [st EXCEPT !.opts = r.post, !.raised = TRUE, !.calls = calls]
            ELSE IF r.result = 0 THEN
                [st EXCEPT !.opts = r.post, !.otp_counter = 0,
                           !.ch = delete(st.ch, c.id), !.done = TRUE,
                           !.calls = calls]
            ELSE
                check_loop(cands, i + 1,
                    [st EXCEPT !.opts = r.post, !.otp_counter = -1,
                               !.ch = set_otp_status(st.ch, c.id),
                               !.calls = calls],
                    passw, replies)

\* a check that starts from the verdict cached in the context instead of
\* the Reject of line 285
check_challenge_response_ReusesVerdict(o, ch, passw, replies) ==
    LET transaction_id == TransactionId(o)
        st0 == [opts |-> o, ch |-> ch,
                otp_counter |-> IF o.radius_result # <<>> THEN o.radius_result[1]
                                ELSE -1,
                raised |-> FALSE, done |-> FALSE, calls |-> <<>>]
        st == IF transaction_id # None
              THEN check_loop(get_challenges(ch, transaction_id), 1, st0,
                              passw, replies)
              ELSE st0
    IN  IF st.raised THEN Outcome(st.opts, st.ch, NoValue, "Exception", st.calls)
        ELSE Outcome(st.opts, challenge_janitor(st.ch), Number(st.otp_counter), None,
                     st.calls)

\* lines 284-314
check_challenge_response(o, ch, passw, replies) ==
    LET transaction_id == TransactionId(o)
        st0 == [opts |-> o, ch |-> ch, otp_counter |-> -1, raised |-> FALSE,
                done |-> FALSE, calls |-> <<>>]
        st == IF transaction_id # None
              THEN check_loop(get_challenges(ch, transaction_id), 1, st0,
                              passw, replies)
              ELSE st0
    IN  IF st.raised THEN Outcome(st.opts, st.ch, NoValue, "Exception", st.calls)
        ELSE Outcome(st.opts, challenge_janitor(st.ch), Number(st.otp_counter), None,
                     st.calls)

\* Python's int() of a decimal string
RECURSIVE int(_)
int(digits) ==
    IF digits = <<>> THEN 0
    ELSE 10 * int(SubSeq(digits, 1, Len(digits) - 1)) + digits[Len(digits)]

\* line 201: int(get_from_config('DefaultChallengeValidityTime', 120))
validity_from_config(config) ==
    IF config = <<>> THEN DefaultChallengeValidityTime ELSE int(config)

\* a challenge that stores the context's message as it is
create_challenge_NoDefaultMessage(o, ch, id, transactionid, generated, config) ==
    LET db_challenge ==
            [id |-> id, serial |-> Serial,
             transaction_id |-> IF Truthy(transactionid) THEN transactionid
                                ELSE generated,
             data |-> o.radius_state, challenge |-> o.radius_message,
             validitytime |-> validity_from_config(config),
             received_count |-> 0, expired |-> FALSE]
    IN  Outcome(o, challenge_janitor(Append(ch, db_challenge)),
                Quad(TRUE, o.radius_message, db_challenge.transaction_id,
                     transactionid),
                None, <<>>)

\* lines 197-210.  Challenge() keeps the transaction id given, or draws a
\* new one (generated) when none is given; config is what the system
\* configuration holds for DefaultChallengeValidityTime.
create_challenge(o, ch, id, transactionid, generated, config) ==
    LET message == IF Truthy(o.radius_message) THEN o.radius_message
                   ELSE DefaultMessage
        state == o.radius_state
        attributes == transactionid    \* {'state': transactionid}
        validity == validity_from_config(config)
        db_challenge ==
            [id |-> id, serial |-> Serial,
             transaction_id |-> IF Truthy(transactionid) THEN transactionid
                                ELSE generated,
             data |-> state, challenge |-> message, validitytime |-> validity,
             received_count |-> 0, expired |-> FALSE]
    IN  Outcome(o, challenge_janitor(Append(ch, db_challenge)),
                Quad(TRUE, message, db_challenge.transaction_id, attributes),
                None, <<>>)

-----------------------------------------------------------------------------
(* The state machine *)

\* The context an attempt starts with: no radius_* key yet; the request
\* names no transaction, or names one under one of the keys the code reads.
EmptyContext ==
    [transaction_id |-> None, state |-> None, transactionid |-> None,
     radius_result |-> <<>>, radius_state |-> None, radius_message |-> None]

AttemptContexts ==
    {EmptyContext,
     [EmptyContext EXCEPT !.transaction_id = "t1"],
     [EmptyContext EXCEPT !.state = "t1"],
     [EmptyContext EXCEPT !.transactionid = "t1"]}

\* the token info the methods read
TokenInfos == [radius_local_checkpin : {"0", "1"}]

Done(op, passw, out) ==
    [op |-> op, passw |-> passw, arg |-> None, pre |-> opts, ret |-> out.ret,
     raised |-> out.raised, exc |-> out.exc, calls |-> out.calls]

Init ==
    /\ opts = EmptyContext
    /\ challenges = <<>>
    /\ nextId = 1
    /\ tokeninfo \in TokenInfos
    /\ system \in Systems
    /\ procs = <<>>
    /\ attempts = 1
    /\ ncalls = 0
    /\ accepted = FALSE
    /\ last = [op |-> "init", passw |-> <<>>, arg |-> None, pre |-> EmptyContext,
               ret |-> NoValue,
               raised |-> FALSE, exc |-> None, calls |-> <<>>]

\* a new request arrives: a new options dict
NewAttempt ==
    \E ctx \in AttemptContexts :
        /\ attempts < MaxAttempts
        /\ attempts' = attempts + 1
        /\ ncalls' = 0
        /\ accepted' = FALSE
        /\ opts' = ctx
        /\ last' = [op |-> "new_attempt", passw |-> <<>>, arg |-> None, pre |-> ctx,
                    ret |-> NoValue,
                    raised |-> FALSE, exc |-> None, calls |-> <<>>]
        /\ UNCHANGED <<challenges, nextId, tokeninfo, system, procs>>

\* the validity time of a record runs out
Expire ==
    \E k \in DOMAIN challenges :
        /\ is_valid(challenges[k])
        /\ challenges' = [challenges EXCEPT ![k].expired = TRUE]
        /\ last' = [op |-> "expire", passw |-> <<>>, arg |-> None, pre |-> opts,
                    ret |-> NoValue,
                    raised |-> FALSE, exc |-> None, calls |-> <<>>]
        /\ UNCHANGED <<opts, nextId, tokeninfo, system, attempts, ncalls, accepted,
                       procs>>

\* the server answered AccessAccept to one of the requests of these calls
Answered(cs) ==
    \E k \in DOMAIN cs : cs[k].req.sent /\ cs[k].reply.code = "AccessAccept"

Apply(op, passw, out) ==
    /\ ncalls < MaxCalls
    /\ ncalls' = ncalls + 1
    /\ accepted' = (accepted \/ Answered(out.calls))
    /\ opts' = out.opts
    /\ challenges' = out.ch
    /\ last' = Done(op, passw, out)
    /\ UNCHANGED <<nextId, tokeninfo, system, attempts, procs>>

IsChallengeRequest ==
    \E passw \in Passwords, reply \in Replies :
        Apply("is_challenge_request", passw,
              is_challenge_request(tokeninfo, opts, challenges, passw, reply))

Authenticate ==
    \E passw \in Passwords, reply \in Replies :
        Apply("authenticate", passw,
              authenticate(tokeninfo, opts, challenges, passw, reply))

CheckOtp ==
    \E otpval \in Responses, reply \in Replies :
        Apply("check_otp", otpval, check_otp(opts, challenges, otpval, reply))

\* the valid records the loops of the response methods meet
NumValid(o) ==
    Len(SelectSeq(get_challenges(challenges, TransactionId(o)), is_valid))

IsChallengeResponse ==
    \E passw \in Responses, replies \in [1 .. NumValid(opts) -> Replies] :
        Apply("is_challenge_response", passw,
              is_challenge_response(opts, challenges, passw, replies))

CheckChallengeResponse ==
    \E passw \in Responses, replies \in [1 .. NumValid(opts) -> Replies] :
        LET out == check_challenge_response(opts, challenges, passw, replies)
        IN  /\ \A k \in DOMAIN out.ch : out.ch[k].received_count <= MaxReceived
            /\ Apply("check_challenge_response", passw, out)

CreateChallenge ==
    \E transactionid \in TxIds \cup {None}, generated \in TxIds :
        /\ transactionid # None => generated = "t1"
        /\ nextId <= MaxChallenges
        /\ ncalls < MaxCalls
        /\ ncalls' = ncalls + 1
        /\ LET out == create_challenge(opts, challenges, nextId, transactionid,
                                       generated,
                                       system.DefaultChallengeValidityTime)
           IN  /\ opts' = out.opts
               /\ challenges' = out.ch
               /\ last' = [Done("create_challenge", <<>>, out)
                               EXCEPT !.arg = transactionid]
        /\ nextId' = nextId + 1
        /\ UNCHANGED <<tokeninfo, system, attempts, accepted, procs>>

Next ==
    \/ NewAttempt
    \/ Expire
    \/ IsChallengeRequest
    \/ CreateChallenge
    \/ IsChallengeResponse
    \/ CheckChallengeResponse
    \/ Authenticate
    \/ CheckOtp

Spec == Init /\ [][Next]_vars

-----------------------------------------------------------------------------
(* The server configuration: update (lines 118-145) writes the token info  *)
(* that check_radius (lines 425-447) reads.                                *)

\* the value of a request parameter: absent, a text, or a Python bool
Absent == [t |-> "none", v |-> ""]
Text(v) == [t |-> "str", v |-> v]
PyBool(v) == [t |-> "bool", v |-> v]

\* Python truthiness of a parameter value
truth(x) == (x.t = "str" /\ x.v # "") \/ (x.t = "bool" /\ x.v = "True")

\* TokenClass.add_tokeninfo: the token info holds text, the bool False is
\* stored as 'False'
add_tokeninfo(ti, key, x) ==
    [ti EXCEPT ![key] = IF x.t = "none" THEN None ELSE x.v]

\* the parameters of an enrollment request
Params ==
    [radius_identifier : {Absent, Text("srv1")},
     radius_server : {Absent, Text(""), Text("h1:1812")},
     radius_secret : {Absent, Text("secret")},
     radius_system_settings : {Absent, PyBool("False"), PyBool("True"),
                               Text("0"), Text("1")}]

NoParam ==
    [radius_identifier |-> Absent, radius_server |-> Absent,
     radius_secret |-> Absent, radius_system_settings |-> Absent]

\* the token info of a token that was never updated
NewTokenInfo ==
    [radius_identifier |-> None, radius_server |-> None,
     radius_system_settings |-> None, radius_local_checkpin |-> None]

\* lines 120-139.  radius.server and radius.secret are required parameters
\* (getParam raises when one is missing); a missing radius.system_settings
\* is the bool False.  Line 139 calls self.update(self, param): one argument
\* too many, a TypeError; lines 140-145 are never reached.
update(ti, param) ==
    LET ti1 == add_tokeninfo(ti, "radius_identifier", param.radius_identifier)
        ti2 == add_tokeninfo(ti1, "radius_server", param.radius_server)
        system_settings ==
            IF param.radius_system_settings = Absent THEN PyBool("False")
            ELSE param.radius_system_settings
        ti3 == add_tokeninfo(ti2, "radius_system_settings", system_settings)
    IN  IF truth(param.radius_identifier)
        THEN [tokeninfo |-> ti1, exc |-> "TypeError"]
        ELSE IF param.radius_server = Absent
        THEN [tokeninfo |-> ti1, exc |-> "ParameterError"]
        ELSE IF param.radius_secret = Absent
        THEN [tokeninfo |-> ti2, exc |-> "ParameterError"]
        ELSE IF /\ ~(truth(param.radius_server) \/ truth(param.radius_secret))
                /\ ~truth(system_settings)
        THEN [tokeninfo |-> ti3, exc |-> "ParameterError"]
        ELSE [tokeninfo |-> ti3, exc |-> "TypeError"]

\* lines 426-447: the configuration check_radius takes: the named server,
\* the system-wide settings, or the token's own server and secret
radius_configuration(ti) ==
    IF Truthy(ti.radius_identifier) THEN "named"
    ELSE IF Truthy(ti.radius_system_settings) THEN "system"
    ELSE "token"

InitConfiguration ==
    /\ opts = EmptyContext
    /\ challenges = <<>>
    /\ nextId = 1
    /\ tokeninfo = NewTokenInfo
    /\ system \in Systems
    /\ procs = <<>>
    /\ attempts = 1
    /\ ncalls = 0
    /\ accepted = FALSE
    /\ last = [op |-> "init", param |-> NoParam, exc |-> None, config |-> None]

Update ==
    \E param \in Params :
        LET out == update(tokeninfo, param)
        IN  /\ tokeninfo' = out.tokeninfo
            /\ last' = [op |-> "update", param |-> param, exc |-> out.exc,
                        config |-> None]
            /\ UNCHANGED <<opts, challenges, nextId, system, attempts, ncalls,
                           accepted, procs>>

\* check_radius up to line 447
ResolveConfiguration ==
    /\ last' = [op |-> "check_radius", param |-> NoParam, exc |-> None,
                config |-> radius_configuration(tokeninfo)]
    /\ UNCHANGED <<opts, challenges, nextId, tokeninfo, system, attempts,
                   ncalls, accepted, procs>>

NextConfiguration == Update \/ ResolveConfiguration

SpecConfiguration == InitConfiguration /\ [][NextConfiguration]_vars

-----------------------------------------------------------------------------
(* Two attempts at once.  The framework serves every request in a process  *)
(* or thread of its own; the attempts share the challenge table and        *)
(* nothing else.  An attempt runs is_challenge_response and                *)
(* check_challenge_response statement by statement: the lookup, the replay *)
(* of a record (a blocking exchange), the delete or the update of the      *)
(* record, the janitor.  The other attempt may take steps in between.      *)
(* procs[p] is attempt p: the method it is in (op) and where (pc), its     *)
(* context, the records it looked up (cands) and the one it is at (i), the *)
(* method's result so far (flag, otp_counter), the number of methods it    *)
(* has run (handlers), the ids of the records it called delete() on        *)
(* (deleted), and whether one of them was no longer in the table (gone).   *)

Procs == {1, 2}

\* the record create_challenge('t1') stores after the server's challenge
\* (State s1, Reply-Message m1)
Stored(id) ==
    [id |-> id, serial |-> Serial, transaction_id |-> "t1", data |-> "s1",
     challenge |-> "m1", validitytime |-> DefaultChallengeValidityTime,
     received_count |-> 0, expired |-> FALSE]

\* the exchanges of the replays
RaceReplies ==
    {r \in Replies : r.code \in {"AccessAccept", "AccessReject", "Timeout"}}
    \cup {[code |-> "AccessChallenge", State |-> "s2", Message |-> "m1"]}

StartOfAttempt ==
    [op |-> "none", pc |-> "idle",
     opts |-> [EmptyContext EXCEPT !.transaction_id = "t1"],
     cands |-> <<>>, i |-> 0, flag |-> FALSE, otp_counter |-> -1,
     raised |-> FALSE, handlers |-> 0, deleted |-> {}, gone |-> FALSE]

Deleted == UNION {procs[p].deleted : p \in DOMAIN procs}

\* a lookup that hands out the list of the attempt's lookup before
lookup_Remembered(p, o) ==
    IF procs[p].cands # <<>> THEN procs[p].cands
    ELSE get_challenges(challenges, TransactionId(o))

\* lines 245-246, 294-295: the records of the transaction, as the table
\* holds them now
lookup(p, o) == get_challenges(challenges, TransactionId(o))

InitInterleaved ==
    /\ opts = EmptyContext
    /\ challenges \in {<<Stored(1)>>, <<Stored(1), Stored(2)>>}
    /\ nextId = Len(challenges) + 1
    /\ tokeninfo = [radius_local_checkpin |-> "0"]
    /\ system \in Systems
    /\ procs = [p \in Procs |-> StartOfAttempt]
    /\ attempts = 1
    /\ ncalls = 0
    /\ accepted = FALSE
    /\ last = [op |-> "init", passw |-> <<>>, arg |-> None, pre |-> EmptyContext,
               ret |-> NoValue,
               raised |-> FALSE, exc |-> None, calls |-> <<>>]

Shared == <<opts, nextId, tokeninfo, system, attempts, ncalls, accepted, last>>

\* lines 230-246: is_challenge_response up to the lookup
BeginIsChallengeResponse(p) ==
    LET me == procs[p]
        o1 == [me.opts EXCEPT !.radius_result = <<>>]
    IN  /\ me.pc = "idle"
        /\ me.handlers < MaxCalls
        /\ procs' = [procs EXCEPT ![p] =
               [me EXCEPT !.op = "is_challenge_response", !.pc = "loop",
                          !.opts = o1, !.flag = FALSE, !.i = 1,
                          !.cands = IF Truthy(TransactionId(o1))
                                    THEN lookup(p, o1) ELSE <<>>]]
        /\ UNCHANGED <<challenges, Shared>>

\* lines 284-295: check_challenge_response up to the lookup
BeginCheckChallengeResponse(p) ==
    LET me == procs[p]
    IN  /\ me.pc = "idle"
        /\ me.handlers < MaxCalls
        /\ procs' = [procs EXCEPT ![p] =
               [me EXCEPT !.op = "check_challenge_response", !.pc = "loop",
                          !.otp_counter = -1, !.i = 1,
                          !.cands = IF TransactionId(me.opts) # None
                                    THEN lookup(p, me.opts) ELSE <<>>]]
        /\ UNCHANGED <<challenges, Shared>>

\* lines 248-249, 297-298: the loop head; is_valid() reads the object the
\* lookup returned
LoopHead(p) ==
    LET me == procs[p]
    IN  /\ me.pc = "loop"
        /\ \/ /\ me.i > Len(me.cands)
              /\ procs' = [procs EXCEPT ![p].pc =
                     IF me.op = "is_challenge_response" THEN "return"
                     ELSE "sweep"]
           \/ /\ me.i <= Len(me.cands)
              /\ procs' = [procs EXCEPT
                     ![p].pc = IF is_valid(me.cands[me.i]) THEN "replay"
                               ELSE "loop",
                     ![p].i = IF is_valid(me.cands[me.i]) THEN me.i
                              ELSE me.i + 1]
        /\ UNCHANGED <<challenges, Shared>>

\* lines 251-259, 299-309: the replay of the record and the branch on the
\* verdict
Replay(p) ==
    \E passw \in Responses, reply \in RaceReplies :
        LET me == procs[p]
            r == check_radius(me.opts, passw, me.cands[me.i].data, reply)
        IN  /\ me.pc = "replay"
            /\ procs' = [procs EXCEPT ![p] =
                   IF me.op = "is_challenge_response" THEN
                       IF r.result # 1
                       THEN [me EXCEPT !.opts = r.post, !.flag = TRUE,
                                       !.i = me.i + 1, !.pc = "loop"]
                       ELSE [me EXCEPT !.opts = r.post, !.pc = "delete"]
                   ELSE
                       IF r.result = 0
                       THEN [me EXCEPT !.opts = r.post, !.otp_counter = 0,
                                       !.pc = "delete"]
                       ELSE [me EXCEPT !.opts = r.post, !.otp_counter = -1,
                                       !.pc = "set_otp_status"]]
            /\ UNCHANGED <<challenges, Shared>>

\* lines 260, 306: challengeobject.delete(), then the janitor of line 261
\* or the break of line 307
Delete(p) ==
    LET me == procs[p]
        id == me.cands[me.i].id
    IN  /\ me.pc = "delete"
        /\ challenges' = delete(challenges, id)
        /\ procs' = [procs EXCEPT ![p] =
               [me EXCEPT !.deleted = @ \cup {id},
                          !.gone = @ \/ id \notin Ids(challenges),
                          !.pc = "sweep"]]
        /\ UNCHANGED Shared

\* line 311: challengeobject.set_otp_status()
SetOtpStatus(p) ==
    LET me == procs[p]
    IN  /\ me.pc = "set_otp_status"
        /\ challenges' = set_otp_status(challenges, me.cands[me.i].id)
        /\ procs' = [procs EXCEPT ![p].i = me.i + 1, ![p].pc = "loop"]
        /\ UNCHANGED Shared

\* lines 261, 313: self.challenge_janitor(); in is_challenge_response the
\* loop goes on, in check_challenge_response the method returns
Sweep(p) ==
    LET me == procs[p]
    IN  /\ me.pc = "sweep"
        /\ challenges' = challenge_janitor(challenges)
        /\ procs' = [procs EXCEPT
               ![p].i = me.i + 1,
               ![p].pc = IF me.op = "is_challenge_response" THEN "loop"
                         ELSE "return"]
        /\ UNCHANGED Shared

\* lines 263, 314
Return(p) ==
    LET me == procs[p]
    IN  /\ me.pc = "return"
        /\ procs' = [procs EXCEPT ![p].pc = "idle",
                                  ![p].handlers = me.handlers + 1]
        /\ UNCHANGED <<challenges, Shared>>

NextInterleaved ==
    \E p \in Procs :
        \/ BeginIsChallengeResponse(p)
        \/ BeginCheckChallengeResponse(p)
        \/ LoopHead(p)
        \/ Replay(p)
        \/ Delete(p)
        \/ SetOtpStatus(p)
        \/ Sweep(p)
        \/ Return(p)

SpecInterleaved == InitInterleaved /\ [][NextInterleaved]_vars

-----------------------------------------------------------------------------
(* Properties.  They read `last`, the record of the last call: its        *)
(* check_radius calls in order, each with the context before (pre) and    *)
(* after (post), the verdict, the path, the request and the reply.        *)

Calls == last.calls
IsMethod == last.op \in {"is_challenge_request", "create_challenge",
                         "is_challenge_response", "check_challenge_response",
                         "authenticate", "check_otp"}

\* C1: within one attempt, once radius_result holds a verdict, no later
\* check_radius call sends a RADIUS request.  (The first call made by
\* is_challenge_response starts after the reset, with radius_result empty.)
C1_NoRequestAfterVerdict ==
    \A k \in DOMAIN Calls :
        Calls[k].pre.radius_result # <<>> => ~Calls[k].req.sent

\* C2: fail closed: in an attempt that started with an empty context, an
\* Accept outcome (check_radius returning 0, authenticate returning
\* accepted = true, check_challenge_response returning 0) occurs only if the
\* server answered AccessAccept to a request sent during that attempt.
AcceptOutcome ==
    \/ \E k \in DOMAIN Calls : ~Calls[k].raised /\ Calls[k].result = 0
    \/ last.op = "authenticate" /\ ~last.raised /\ last.ret.b = TRUE
    \/ last.op = "check_challenge_response" /\ ~last.raised /\ last.ret.n = 0

C2_FailClosed == AcceptOutcome => accepted

\* C3: when check_radius receives a reply, the reply code determines the
\* verdict and the cached radius_state: AccessAccept gives 0 and
\* '<SUCCESS>', AccessChallenge gives 1 and the State attribute of the
\* reply, every other code gives -1 and '<REJECTED>'.
C3_ReplyCodeDeterminesVerdict ==
    \A k \in DOMAIN Calls :
        Calls[k].path = "reply" =>
            LET c == Calls[k] IN
            /\ ~c.raised
            /\ c.reply.code = "AccessAccept" =>
                   c.result = 0 /\ c.post.radius_state = SUCCESS
            /\ c.reply.code = "AccessChallenge" =>
                   c.result = 1 /\ c.post.radius_state = c.reply.State
            /\ c.reply.code \notin {"AccessAccept", "AccessChallenge"} =>
                   c.result = -1 /\ c.post.radius_state = REJECTED

\* C4: with radius_state '<SUCCESS>' in the context check_radius returns 0,
\* with '<REJECTED>' it returns -1; in both cases it sends no request and
\* clears radius_state and radius_message in the context.
C4_SentinelShortCircuit ==
    \A k \in DOMAIN Calls :
        Calls[k].pre.radius_state \in {SUCCESS, REJECTED} =>
            LET c == Calls[k] IN
            /\ ~c.raised
            /\ c.result = (IF c.pre.radius_state = SUCCESS THEN 0 ELSE -1)
            /\ ~c.req.sent
            /\ c.reply = NoReply
            /\ c.post.radius_state = None
            /\ c.post.radius_message = None

C4_Witness ==
    /\ last.op = "check_challenge_response"
    /\ Len(Calls) = 1
    /\ Calls[1].pre.radius_state = SUCCESS
    /\ Calls[1].pre.radius_message = SucceededMessage
    /\ last.ret = Number(0)

\* C5: a failure while building, sending or decoding the exchange makes
\* check_radius return -1 as a normal return value: no exception reaches
\* the caller.
C5_FailureReturnsReject ==
    /\ \A k \in DOMAIN Calls :
           Calls[k].path = "failure" => ~Calls[k].raised /\ Calls[k].result = -1
    /\ (\E k \in DOMAIN Calls : Calls[k].path = "failure") => ~last.raised

C5_Witness ==
    /\ last.op = "check_otp"
    /\ Len(Calls) = 1
    /\ Calls[1].path = "failure"
    /\ Calls[1].reply.code = "Timeout"
    /\ Calls[1].req.sent
    /\ last.ret = Boolean(FALSE)

\* C6 as stated: on every path of check_radius, the sentinel short circuit
\* included, radius_result equals the verdict returned.
C6_ResultWrittenOnEveryPath ==
    \A k \in DOMAIN Calls :
        ~Calls[k].raised => Calls[k].post.radius_result = <<Calls[k].result>>

\* C6 amended: after an exchange (reply received or failure) radius_result
\* equals the verdict returned; the sentinel short circuit leaves
\* radius_result as it was.
C6_ResultWrittenAfterExchange ==
    \A k \in DOMAIN Calls :
        LET c == Calls[k] IN
        /\ c.path \in {"reply", "failure"} => c.post.radius_result = <<c.result>>
        /\ c.path = "sentinel" => c.post.radius_result = c.pre.radius_result

C6_Witness ==
    /\ Len(Calls) = 2
    /\ Calls[1].path = "failure"
    /\ Calls[1].post.radius_result = <<-1>>
    /\ Calls[2].path = "reply"
    /\ Calls[2].result = 1
    /\ Calls[2].post.radius_result = <<1>>

C8_FalseWheneverChallengedAgain ==
    last.op = "is_challenge_response" =>
        \A k \in DOMAIN Calls :
            /\ Calls[k].result = 1 =>
                   last.ret = Boolean(FALSE) /\ Calls[k].cid \notin Ids(challenges)
            /\ Calls[k].result # 1 =>
                   /\ last.ret = Boolean(TRUE)
                   /\ Calls[k].cid \in Ids(challenges)
                   /\ Record(challenges, Calls[k].cid).received_count = Calls[k].count

\* C8 amended: is_challenge_response returns true exactly when the replay
\* of at least one valid challenge yields Accept or Reject; every record
\* whose replay yields Challenge again is deleted, every record whose replay
\* yields Accept or Reject stays with its counter unchanged.
C8_TrueIffSomeReplayNotChallenged ==
    last.op = "is_challenge_response" =>
        /\ ~last.raised
        /\ last.ret = Boolean(\E k \in DOMAIN Calls : Calls[k].result # 1)
        /\ \A k \in DOMAIN Calls :
               /\ Calls[k].result = 1 => Calls[k].cid \notin Ids(challenges)
               /\ Calls[k].result # 1 =>
                      /\ Calls[k].cid \in Ids(challenges)
                      /\ Record(challenges, Calls[k].cid).received_count
                             = Calls[k].count

C8_Witness ==
    /\ last.op = "is_challenge_response"
    /\ Len(Calls) = 2
    /\ Calls[1].result = 1
    /\ Calls[2].result = -1
    /\ last.ret = Boolean(TRUE)

\* C9: with local PIN checking off, authenticate maps the verdict (the
\* cached radius_result when there is one, else the result of check_radius)
\* to its return value: 0 to (true, 0, 'matching 1 tokens'), 1 to (false, 1,
\* 'unexpected challenge required'), -1 to (false, -1, 'remote side denied
\* access'); with a cached radius_result it calls check_radius not at all.
Verdict ==
    IF last.pre.radius_result # <<>> THEN last.pre.radius_result[1]
    ELSE Calls[1].result

C10_WrongPinRejected ==
    (/\ last.op = "authenticate"
     /\ check_pin_local(tokeninfo)
     /\ ~check_pin(base_split_pin_pass(last.passw).pin)) =>
        /\ ~last.raised
        /\ last.ret = Triple(FALSE, -1, "Wrong PIN")
        /\ Calls = <<>>

\* C11: with local PIN checking off, is_challenge_request returns true
\* exactly when the verdict is Challenge (1); with a radius_result in the
\* context it takes that value and calls check_radius not at all (no request
\* is sent), otherwise it calls check_radius exactly once.
C11_IsChallengeRequestOnVerdict ==
    (last.op = "is_challenge_request" /\ ~check_pin_local(tokeninfo)) =>
        /\ ~last.raised
        /\ last.pre.radius_result # <<>> => Calls = <<>>
        /\ last.pre.radius_result = <<>> => Len(Calls) = 1
        /\ last.ret = Boolean(Verdict = 1)

C11_Witness ==
    /\ last.op = "is_challenge_request"
    /\ ~check_pin_local(tokeninfo)
    /\ last.pre.radius_result = <<1>>
    /\ Calls = <<>>
    /\ last.ret = Boolean(TRUE)

\* C12: create_challenge persists exactly one record, for the token's
\* serial: its data is the context's radius_state, its message the context's
\* radius_message, or 'Enter your RADIUS tokencode:' when there is none, its
\* validity the configured DefaultChallengeValidityTime, 120 when that is
\* not set.  No other record is added or changed.
C12_CreateChallengePersistsRecord ==
    [][nextId' # nextId =>
        LET new == {k \in DOMAIN challenges' : challenges'[k].id = nextId}
        IN  /\ Cardinality(new) = 1
            /\ \A k \in new :
                   LET c == challenges'[k] IN
                   /\ c.serial = Serial
                   /\ c.data = opts.radius_state
                   /\ opts.radius_message \in {None, ""} =>
                          c.challenge = "Enter your RADIUS tokencode:"
                   /\ opts.radius_message \notin {None, ""} =>
                          c.challenge = opts.radius_message
                   /\ system.DefaultChallengeValidityTime = <<>> =>
                          c.validitytime = 120
                   /\ system.DefaultChallengeValidityTime = <<6, 0>> =>
                          c.validitytime = 60
            /\ \A k \in DOMAIN challenges' \ new :
                   \E j \in DOMAIN challenges : challenges[j] = challenges'[k]
    ]_vars

C12_Witness ==
    /\ last.op = "create_challenge"
    /\ system.DefaultChallengeValidityTime = <<6, 0>>
    /\ last.pre.radius_state = "s1"
    /\ last.pre.radius_message = None
    /\ \E k \in DOMAIN challenges :
           /\ challenges[k].id = nextId - 1
           /\ challenges[k].data = "s1"
           /\ challenges[k].challenge = DefaultMessage
           /\ challenges[k].validitytime = 60

\* the number of requests these check_radius calls put on the wire
Sent(cs) == Cardinality({k \in DOMAIN cs : cs[k].req.sent})

\* the step is a call of the method op
IsCall(op) == last'.op = op /\ ncalls' = ncalls + 1

\* C14: the State of the Access-Request that replays a challenge is the
\* State the server returned in the AccessChallenge the record was created
\* for: check_radius caches the State of the reply in radius_state,
\* create_challenge stores radius_state as the record's data, and the replay
\* of a record sends its data as State.
C14_ReplayCarriesServerState ==
    /\ \A k \in DOMAIN Calls :
           LET c == Calls[k] IN
           /\ (c.path = "reply" /\ c.result = 1) =>
                  c.post.radius_state = c.reply.State
           /\ (c.cid # 0 /\ c.req.sent /\ c.saved \in ServerStates) =>
                  c.req.State = c.saved
    /\ last.op = "create_challenge" =>
           \E k \in DOMAIN challenges :
               /\ challenges[k].id = nextId - 1
               /\ challenges[k].data = last.pre.radius_state

\* C15: in the chain is_challenge_response, check_challenge_response on one
\* context, where is_challenge_response replayed a challenge, the two calls
\* together send exactly one request and check_challenge_response returns
\* the verdict is_challenge_response got from the server: Accept stays
\* Accept (and the challenge is deleted), Reject stays Reject.
C15_ChainSendsOneRequest ==
    [][(/\ last.op = "is_challenge_response"
        /\ IsCall("check_challenge_response")
        /\ attempts' = attempts
        /\ last.calls # <<>>) =>
           /\ ~last'.raised
           /\ Sent(last.calls) + Sent(last'.calls) = 1
           /\ \A k \in DOMAIN last.calls :
                  LET c == last.calls[k] IN
                  (c.path = "reply" /\ c.result \in {0, -1}) =>
                      /\ last'.ret = Number(c.result)
                      /\ c.result = 0 => c.cid \notin Ids(challenges')
    ]_vars

\* C16 as stated: once check_challenge_response has returned Accept for a
\* transaction, no valid record is left for that transaction; and a call of
\* is_challenge_response or check_challenge_response for a transaction
\* without a valid record returns false, or Reject, and sends no request.
C16_NoValidRecordAfterAccept ==
    [][/\ (IsCall("check_challenge_response") /\ last'.ret = Number(0)) =>
              SelectSeq(get_challenges(challenges', TransactionId(opts)),
                        is_valid) = <<>>
       /\ (IsCall("is_challenge_response") /\ NumValid(opts) = 0) =>
              last'.ret = Boolean(FALSE) /\ last'.calls = <<>>
       /\ (IsCall("check_challenge_response") /\ NumValid(opts) = 0) =>
              last'.ret = Number(-1) /\ last'.calls = <<>>
    ]_vars

\* C16 amended: the record whose replay check_challenge_response accepted
\* is deleted by that call; a deleted record never comes back and only
\* records of the table are replayed, so the accepted record is never
\* replayed again; the valid records that were not replayed stay.  A call
\* for a transaction without a valid record returns false, or Reject, and
\* sends no request.
C16_AcceptedRecordIsSingleUse ==
    [][/\ (IsCall("check_challenge_response") /\ last'.ret = Number(0)) =>
              /\ \E k \in DOMAIN last'.calls :
                     /\ last'.calls[k].result = 0
                     /\ last'.calls[k].cid \notin Ids(challenges')
              /\ \A j \in DOMAIN challenges :
                     (/\ is_valid(challenges[j])
                      /\ \A k \in DOMAIN last'.calls :
                             last'.calls[k].cid # challenges[j].id) =>
                         \E i \in DOMAIN challenges' :
                             challenges'[i] = challenges[j]
       /\ Ids(challenges') \subseteq Ids(challenges) \cup {nextId}
       /\ nextId \notin Ids(challenges)
       /\ \A k \in DOMAIN last'.calls :
              last'.calls[k].cid # 0 => last'.calls[k].cid \in Ids(challenges)
       /\ (IsCall("is_challenge_response") /\ NumValid(opts) = 0) =>
              last'.ret = Boolean(FALSE) /\ last'.calls = <<>>
       /\ (IsCall("check_challenge_response") /\ NumValid(opts) = 0) =>
              last'.ret = Number(-1) /\ last'.calls = <<>>
    ]_vars

C16_Witness ==
    /\ last.op = "check_challenge_response"
    /\ last.ret = Number(0)
    /\ Len(Calls) = 1
    /\ Calls[1].cid \notin Ids(challenges)
    /\ \E k \in DOMAIN challenges :
           /\ challenges[k].transaction_id = TransactionId(last.pre)
           /\ is_valid(challenges[k])

\* C17: every AccessChallenge reply makes check_radius return Challenge
\* (1), also one without a State or without a Reply-Message attribute; a
\* missing value is not captured: radius_state keeps the saved state passed
\* in, radius_message stays empty.
C17_EveryChallengeReplyGivesChallenge ==
    \A k \in DOMAIN Calls :
        Calls[k].reply.code = "AccessChallenge" =>
            LET c == Calls[k] IN
            /\ ~c.raised
            /\ c.result = 1
            /\ c.post.radius_state =
                   (IF c.reply.State # None THEN c.reply.State ELSE c.saved)
            /\ c.post.radius_message = c.reply.Message

\* C19: with local PIN checking on and the right PIN in the password,
\* is_challenge_request and authenticate return, and the User-Password of
\* the request they make (one check_radius call when the context holds no
\* verdict) is the OTP that follows the PIN, not the whole password.
C19_LocalPinForwardsOtpOnly ==
    (/\ last.op \in {"is_challenge_request", "authenticate"}
     /\ check_pin_local(tokeninfo)
     /\ check_pin(base_split_pin_pass(last.passw).pin)) =>
        /\ ~last.raised
        /\ last.pre.radius_result = <<>> => Len(Calls) = 1
        /\ \A k \in DOMAIN Calls :
               Calls[k].req.sent =>
                   Calls[k].req.User_Password
                       = base_split_pin_pass(last.passw).otpval

\* C20: create_challenge returns (true, message, transaction id,
\* attributes); the transaction id in the attributes (key 'state') is the
\* one returned and stored in the record, also when the caller gave none;
\* the janitor has run after the record was saved (no expired record is
\* left).
C20_AttributesCarryTransactionId ==
    last.op = "create_challenge" =>
        /\ ~last.raised
        /\ last.ret.kind = "quad"
        /\ last.ret.b = TRUE
        /\ last.ret.state = last.ret.transaction_id
        /\ \E k \in DOMAIN challenges :
               /\ challenges[k].id = nextId - 1
               /\ challenges[k].transaction_id = last.ret.transaction_id
               /\ challenges[k].challenge = last.ret.message
        /\ \A k \in DOMAIN challenges : is_valid(challenges[k])

\* C18: check_radius takes the named server whenever radius.identifier is
\* set; otherwise the system-wide settings exactly when the flag
\* radius.system_settings is true; otherwise (flag false or absent) the
\* token's own radius.server and secret.
C18_ConfigurationOrder ==
    last.op = "check_radius" =>
        /\ Truthy(tokeninfo.radius_identifier) => last.config = "named"
        /\ ~Truthy(tokeninfo.radius_identifier) =>
               /\ is_true(tokeninfo.radius_system_settings) =>
                      last.config = "system"
               /\ ~is_true(tokeninfo.radius_system_settings) =>
                      last.config = "token"

C21_ExpiredOrAbsentNeverReplayed ==
    [][/\ (IsCall("is_challenge_response") /\ NumValid(opts) = 0) =>
              /\ last'.ret = Boolean(FALSE)
              /\ Sent(last'.calls) = 0 /\ last'.calls = <<>>
              /\ ~last'.raised
              /\ challenges' = challenges
       /\ (IsCall("check_challenge_response") /\ NumValid(opts) = 0) =>
              /\ last'.ret = Number(Reject)
              /\ Sent(last'.calls) = 0 /\ last'.calls = <<>>
              /\ ~last'.raised
              /\ challenges' = challenge_janitor(challenges)
              /\ \A k \in DOMAIN challenges :
                     is_valid(challenges[k]) =>
                         \E i \in DOMAIN challenges' :
                             challenges'[i] = challenges[k]
    ]_vars

\* an expired record of the transaction is in the table and
\* is_challenge_response has passed it over
C21_Witness ==
    /\ last.op = "is_challenge_response"
    /\ TransactionId(last.pre) = "t1"
    /\ \E k \in DOMAIN challenges :
           /\ challenges[k].transaction_id = "t1"
           /\ ~is_valid(challenges[k])
    /\ \A k \in DOMAIN challenges :
           challenges[k].transaction_id = "t1" => ~is_valid(challenges[k])
    /\ last.ret = Boolean(FALSE)
    /\ Calls = <<>>

\* C22: split_pin_pass returns for every password in both modes.  With
\* local PIN checking off it returns (0, '', passw): no PIN, the whole
\* password to forward.  With local PIN checking on it returns the PIN
\* prefix and the OTP remainder of the base class's split.  Stated for the
\* password of every is_challenge_request and authenticate call, the two
\* callers of split_pin_pass.
C22_SplitPinPassReturns ==
    last.op \in {"is_challenge_request", "authenticate"} =>
        LET r == split_pin_pass(tokeninfo, last.passw, 0)
            base == base_split_pin_pass(last.passw)
        IN  /\ ~r.raised
            /\ ~check_pin_local(tokeninfo) =>
                   r.res = 0 /\ r.pin = <<>> /\ r.otpval = last.passw
            /\ check_pin_local(tokeninfo) =>
                   r.pin = base.pin /\ r.otpval = base.otpval

====
